---- MODULE Spec2Model ----
(***************************************************************************)
(* A model of src/lisp/lispy.py: the symbol interner, the reader's atom    *)
(* classifier, the environment chain, eval, expand and call_cc, driven by  *)
(* an external caller that invokes the module's entry points one at a      *)
(* time.  Python values are tagged records; an uncaught Python exception   *)
(* is the record [exc |-> <class name>].                                   *)
(***************************************************************************)
EXTENDS Integers, Sequences, FiniteSets, TLC

\* ------------------------------------------------------------------ bounds

MaxEnvs == 2       \* Env objects alive on the heap
MaxProcs == 1      \* Procedure objects alive on the heap
MaxFresh == 3      \* uninterned Symbol objects made by atom()
MaxBalls == 3      \* call_cc activations of one session
MaxDepth == 3      \* Python frames on the call_cc stack

\* ------------------------------------------------------------ Python values

IntV(n) == [int |-> n]
BoolV(b) == [bool |-> b]
NoneV == [none |-> TRUE]
FloatV(s) == [float |-> s]
StrV(s) == [str |-> s]
\* A Symbol object: its spelling and its identity.  id = 0 is the one object
\* stored under that spelling in Sym's symbol_table; id > 0 is an object
\* made by a direct Symbol(...) call.
SymV(s, i) == [sym |-> s, id |-> i]
ListV(q) == [list |-> q]
\* The lazy iterator returned by Python 3's map(expand, x): nothing has been
\* expanded yet, and it is not subscriptable.
MapV(q) == [map |-> q]
ProcV(i) == [proc |-> i]
PrimV(n) == [prim |-> n]
ExcV(c) == [exc |-> c]

IsInt(v) == "int" \in DOMAIN v
IsBool(v) == "bool" \in DOMAIN v
IsNone(v) == "none" \in DOMAIN v
IsFloat(v) == "float" \in DOMAIN v
IsStr(v) == "str" \in DOMAIN v
IsSym(v) == "sym" \in DOMAIN v
IsList(v) == "list" \in DOMAIN v
IsMap(v) == "map" \in DOMAIN v
IsProc(v) == "proc" \in DOMAIN v
IsPrim(v) == "prim" \in DOMAIN v
IsExc(v) == "exc" \in DOMAIN v

\* Sym(s): the interned object for spelling s.
S(s) == SymV(s, 0)
L1(a) == ListV(<<a>>)
L2(a, b) == ListV(<<a, b>>)
L3(a, b, c) == ListV(<<a, b, c>>)
L4(a, b, c, d) == ListV(<<a, b, c, d>>)

\* q[1:]
Rest(q) == SubSeq(q, 2, Len(q))

\* The symbols interned while the module loads.
LoadSyms ==
  {"quote", "if", "set!", "define", "lambda", "begin", "define-macro",
   "quasiquote", "unquote", "unquote-splicing", "append", "cons", "let"}

_quote == S("quote")
_if == S("if")
_set == S("set!")
_define == S("define")
_lambda == S("lambda")
_begin == S("begin")
_definemacro == S("define-macro")
_quasiquote == S("quasiquote")
_unquote == S("unquote")
_unquotesplicing == S("unquote-splicing")
_append == S("append")
_cons == S("cons")
_let == S("let")

\* x is y
Is(x, y) == x = y

\* The names bound at module level in lispy.py (and the builtins it uses).
\* A reference to any other global name raises NameError.
ModuleNames ==
  {"Symbol", "Sym", "Procedure", "parse", "eof_object", "InPort", "readchar",
   "read", "quotes", "atom", "to_string", "load", "repl", "Env", "is_pair",
   "cons", "call_cc", "add_globals", "isa", "global_env", "eval", "expand",
   "require", "expand_quasiquote", "let", "macro_table"}

IsBound(name) == name \in ModuleNames

\* --------------------------------------------------------------- Sym, atom

\* Sym(s, symbol_table): find or create the unique Symbol for spelling s.
\* table is the set of spellings that have an entry.
Sym(s, table) == [r |-> S(s), table |-> table \cup {s}]

\* The tokens the driver hands to atom(), with what int() makes of them.
IntTokens == {"42", "0"}
IntOfToken(token) == IF token = "42" THEN 42 ELSE 0

\* atom(token): #t and #f booleans, then int; any other token of the model
\* is no string literal and no float or complex, and becomes a Symbol made
\* by a direct Symbol(token) call, the object numbered fresh.
atom(token, fresh) ==
  IF token = "#t" THEN BoolV(TRUE)
  ELSE IF token = "#f" THEN BoolV(FALSE)
  ELSE IF token \in IntTokens THEN IntV(IntOfToken(token))
  ELSE SymV(token, fresh)

\* read(inport) defines read_ahead and ends: it returns None for any input.
read(inport) == NoneV

\* ------------------------------------------------------------------- Env

\* dict.update(zip(params, args)) for equally long params and args; a later
\* pair overwrites an earlier one with the same key.
ZipDict(params, args) ==
  [n \in {params[i].sym : i \in 1..Len(params)} |->
     args[CHOOSE i \in 1..Len(params) :
            /\ params[i].sym = n
            /\ \A j \in 1..Len(params) : params[j].sym = n => j <= i]]

\* Env.__init__ without its arity check (a mutant of EnvInit).
EnvInitNoCheck(params, args, outer) ==
  IF IsSym(params)
    THEN [vars |-> (params.sym :> ListV(args)), outer |-> outer]
    ELSE LET n == IF Len(params.list) <= Len(args) THEN Len(params.list) ELSE Len(args) IN
         [vars |-> ZipDict(SubSeq(params.list, 1, n), SubSeq(args, 1, n)), outer |-> outer]

\* Env.__init__(params, args, outer): the new frame, or the TypeError raised
\* when a parameter sequence and the arguments differ in length.
EnvInit(params, args, outer) ==
  IF IsSym(params)
    THEN [vars |-> (params.sym :> ListV(args)), outer |-> outer]
    ELSE IF ~IsList(params) \/ Len(args) # Len(params.list)
      THEN ExcV("TypeError")
      ELSE [vars |-> ZipDict(params.list, args), outer |-> outer]

\* Env.find(var): the innermost frame, from frame e outward, that holds var;
\* 0 stands for the LookupError raised at the root.
RECURSIVE find(_, _, _)
find(envs, e, var) ==
  IF var \in DOMAIN envs[e].vars THEN e
  ELSE IF envs[e].outer = 0 THEN 0
  ELSE find(envs, envs[e].outer, var)

\* is_pair(x)
is_pair(x) == IsList(x) /\ x.list # <<>>

\* add_globals: the primitives the model's programs use, and math's pi.
GlobalNames == {"+", "-", "=", "car", "cons", "list", "pi"}
add_globals ==
  [vars |-> [n \in GlobalNames |-> IF n = "pi" THEN FloatV("pi") ELSE PrimV(n)],
   outer |-> 0]

\* global_env is the first object on the env heap.
global_env == 1

\* macro_table = {_let: let}
InitMacroTable == ("let" :> PrimV("let"))

\* callable(v)
Callable(v) == IsProc(v) \/ IsPrim(v)

\* Python truth value of v, as `conseq if eval(test, env) else alt` tests it.
Truthy(v) ==
  IF IsBool(v) THEN v.bool
  ELSE IF IsInt(v) THEN v.int # 0
  ELSE IF IsNone(v) THEN FALSE
  ELSE IF IsList(v) THEN v.list # <<>>
  ELSE IF IsSym(v) THEN v.sym # ""
  ELSE IF IsStr(v) THEN v.str # ""
  ELSE TRUE

IsNum(v) == IsInt(v) \/ IsBool(v)
NumOf(v) == IF IsBool(v) THEN (IF v.bool THEN 1 ELSE 0) ELSE v.int

\* Python == on the model's values: Symbols and strs compare by spelling,
\* bools as the ints 1 and 0, lists element-wise.
RECURSIVE PyEq(_, _)
PyEq(a, b) ==
  IF IsNum(a) /\ IsNum(b) THEN NumOf(a) = NumOf(b)
  ELSE IF (IsSym(a) \/ IsStr(a)) /\ (IsSym(b) \/ IsStr(b))
    THEN (IF IsSym(a) THEN a.sym ELSE a.str) = (IF IsSym(b) THEN b.sym ELSE b.str)
  ELSE IF IsList(a) /\ IsList(b)
    THEN /\ Len(a.list) = Len(b.list)
         /\ \A i \in 1..Len(a.list) : PyEq(a.list[i], b.list[i])
  ELSE a = b

\* The first character of the spellings the model's programs use (s[0]).
CharAt0(s) ==
  IF s = "" THEN ""
  ELSE IF s \in {"a", "b", "f", "k", "m", "n", "x", "y", "+", "-", "="} THEN s
  ELSE IF s \in {"car", "cdr", "cons"} THEN "c"
  ELSE IF s \in {"zz"} THEN "z"
  ELSE IF s \in {"pi"} THEN "p"
  ELSE IF s \in {"loop", "list", "let", "lambda"} THEN "l"
  ELSE IF s \in {"quote", "quasiquote"} THEN "q"
  ELSE IF s \in {"if"} THEN "i"
  ELSE IF s \in {"set!"} THEN "s"
  ELSE IF s \in {"define", "define-macro"} THEN "d"
  ELSE IF s \in {"begin"} THEN "b"
  ELSE IF s \in {"unquote", "unquote-splicing"} THEN "u"
  ELSE IF s \in {"append"} THEN "a"
  ELSE "m"

\* x[0] for a Python value x: a value, or the exception the subscript raises.
Item0(x) ==
  IF IsList(x) THEN (IF x.list = <<>> THEN ExcV("IndexError") ELSE x.list[1])
  ELSE IF IsSym(x) THEN (IF x.sym = "" THEN ExcV("IndexError") ELSE StrV(CharAt0(x.sym)))
  ELSE IF IsStr(x) THEN (IF x.str = "" THEN ExcV("IndexError") ELSE StrV(CharAt0(x.str)))
  ELSE ExcV("TypeError")

\* ------------------------------------------------------------ primitives

\* let(*args), the macro registered under `let`.  The checks come first;
\* `vars, vals = zip(*bindings)` needs a binding to unpack, and the result
\* expression adds a list and a map object, which raises TypeError.
let(args) ==
  IF ~(Len(args) > 1) THEN ExcV("SyntaxError")
  ELSE LET bindings == args[1] IN
    IF IsSym(bindings) \/ IsStr(bindings)
      THEN (IF Truthy(bindings) THEN ExcV("SyntaxError") ELSE ExcV("ValueError"))
    ELSE IF ~IsList(bindings) THEN ExcV("TypeError")
    ELSE IF \E i \in 1..Len(bindings.list) :
              LET b == bindings.list[i] IN
              ~(IsList(b) /\ Len(b.list) = 2 /\ IsSym(b.list[1]))
      THEN ExcV("SyntaxError")
    ELSE IF bindings.list = <<>> THEN ExcV("ValueError")
    ELSE ExcV("TypeError")

\* proc(*args) for a host callable of global_env or the macro table.
CallPrim(name, args) ==
  IF name = "let" THEN let(args)
  ELSE IF name = "list"
    THEN (IF IsBound("List") THEN ListV(args) ELSE ExcV("NameError"))
  ELSE IF name = "car"
    THEN (IF Len(args) # 1 THEN ExcV("TypeError") ELSE Item0(args[1]))
  ELSE IF Len(args) # 2 THEN ExcV("TypeError")
  ELSE LET a == args[1]  b == args[2] IN
    IF name = "=" THEN BoolV(PyEq(a, b))
    ELSE IF name = "cons"
      THEN (IF IsList(b) THEN ListV(<<a>> \o b.list) ELSE ExcV("TypeError"))
    ELSE IF IsNum(a) /\ IsNum(b)
      THEN (IF name = "+" THEN IntV(NumOf(a) + NumOf(b)) ELSE IntV(NumOf(a) - NumOf(b)))
    ELSE IF (IsNum(a) \/ IsFloat(a)) /\ (IsNum(b) \/ IsFloat(b)) THEN FloatV("float")
    ELSE IF name = "+" /\ IsList(a) /\ IsList(b) THEN ListV(a.list \o b.list)
    ELSE ExcV("TypeError")

\* ------------------------------------------------------------------ eval

\* The interpreter's heap and tables: envs (Env objects, global_env first),
\* procs (Procedure objects) and macro_table.  An evaluation yields
\* [r |-> value or exception, st |-> the state it leaves].
R(r, st) == [r |-> r, st |-> st]

\* The end of eval's body.  The if, begin and closure-application branches
\* rebind x (and env) and fall through to the end of the function: there is
\* no enclosing loop, and Python returns None.
FallOff(x, env, st) == R(NoneV, st)

\* A lookup that yields None for an unbound symbol (a mutant of Lookup).
LookupOrNone(x, env, st) ==
  LET e == find(st.envs, env, x.sym) IN
  IF e = 0 THEN R(NoneV, st) ELSE R(st.envs[e].vars[x.sym], st)

\* env.find(x)[x] for a Symbol x (line 199).
Lookup(x, env, st) ==
  LET e == find(st.envs, env, x.sym) IN
  IF e = 0 THEN R(ExcV("LookupError"), st) ELSE R(st.envs[e].vars[x.sym], st)

RECURSIVE eval(_, _, _)
RECURSIVE evalEach(_, _, _, _)

\* [eval(exp, env) for exp in exps], left to right, up to the first exception.
evalEach(exps, env, st, acc) ==
  IF exps = <<>> THEN R(ListV(acc), st)
  ELSE LET h == eval(exps[1], env, st) IN
       IF IsExc(h.r) THEN h
       ELSE evalEach(Rest(exps), env, h.st, Append(acc, h.r))

\* eval's dispatch on a list x (lines 202-233).
evalList(x, env, st) ==
  IF x.list = <<>> THEN R(ExcV("IndexError"), st)
  ELSE LET op == x.list[1]
           n == Len(x.list) IN
    IF PyEq(op, _quote)
      THEN (IF n # 2 THEN R(ExcV("ValueError"), st) ELSE R(x.list[2], st))
    ELSE IF PyEq(op, _if)
      THEN (IF n # 4 THEN R(ExcV("ValueError"), st)
            ELSE LET t == eval(x.list[2], env, st) IN
                 IF IsExc(t.r) THEN t
                 ELSE FallOff(IF Truthy(t.r) THEN x.list[3] ELSE x.list[4], env, t.st))
    ELSE IF PyEq(op, _define)
      THEN (IF n # 3 THEN R(ExcV("ValueError"), st)
            ELSE LET v == eval(x.list[3], env, st) IN
                 IF IsExc(v.r) THEN v
                 ELSE IF ~IsSym(x.list[2]) THEN R(ExcV("TypeError"), v.st)
                 ELSE R(NoneV,
                        [v.st EXCEPT !.envs[env].vars =
                           (x.list[2].sym :> v.r) @@ @]))
    ELSE IF PyEq(op, _set)
      THEN (IF n # 3 THEN R(ExcV("ValueError"), st)
            ELSE LET v == eval(x.list[3], env, st) IN
                 IF IsExc(v.r) THEN v
                 ELSE IF ~IsSym(x.list[2]) THEN R(ExcV("TypeError"), v.st)
                 ELSE LET e == find(v.st.envs, env, x.list[2].sym) IN
                      IF e = 0 THEN R(ExcV("LookupError"), v.st)
                      ELSE R(NoneV,
                             [v.st EXCEPT !.envs[e].vars =
                                (x.list[2].sym :> v.r) @@ @]))
    ELSE IF PyEq(op, _lambda)
      THEN (IF n # 3 THEN R(ExcV("ValueError"), st)
            ELSE R(ProcV(Len(st.procs) + 1),
                   [st EXCEPT !.procs =
                      Append(@, [params |-> x.list[2], exp |-> x.list[3], env |-> env])]))
    ELSE IF PyEq(op, _begin)
      THEN (IF n # 3 THEN R(ExcV("ValueError"), st)
            ELSE LET b == evalEach(SubSeq(x.list, 2, n - 1), env, st, <<>>) IN
                 IF IsExc(b.r) THEN b
                 ELSE FallOff(x.list[n], env, b.st))
    ELSE LET a == evalEach(x.list, env, st, <<>>) IN
         IF IsExc(a.r) THEN a
         ELSE LET proc == a.r.list[1]
                  exps == Rest(a.r.list) IN
              IF IsProc(proc)
                THEN LET p == a.st.procs[proc.proc]
                         e == EnvInit(p.params, exps, p.env) IN
                     IF IsExc(e) THEN R(e, a.st)
                     ELSE FallOff(p.exp, Len(a.st.envs) + 1,
                                  [a.st EXCEPT !.envs = Append(@, e)])
              ELSE IF IsPrim(proc) THEN R(CallPrim(proc.prim, exps), a.st)
              ELSE R(ExcV("TypeError"), a.st)

\* eval(x, env): a Symbol is looked up through the chain of frames; for
\* anything else the next test, isa(x, List), reads the global name List.
eval(x, env, st) ==
  IF IsSym(x) THEN Lookup(x, env, st)
  ELSE IF ~IsBound("List") THEN R(ExcV("NameError"), st)
  ELSE IF ~IsList(x) THEN R(x, st)
  ELSE evalList(x, env, st)

\* Procedure.__call__(*args): eval(self.exp, Env(self.params, args, self.env)).
\* The Env is built first; its TypeError leaves the heap as it was.  frame is
\* the Env the body ran in (0: none was made).
ProcedureCall(p, args, st) ==
  LET e == EnvInit(p.params, args, p.env) IN
  IF IsExc(e) THEN [r |-> e, st |-> st, frame |-> 0]
  ELSE LET v == eval(p.exp, Len(st.envs) + 1, [st EXCEPT !.envs = Append(@, e)]) IN
       [r |-> v.r, st |-> v.st, frame |-> Len(st.envs) + 1]

\* proc(*args) for any value proc.
Call(proc, args, st) ==
  IF IsProc(proc) THEN ProcedureCall(st.procs[proc.proc], args, st)
  ELSE IF IsPrim(proc) THEN R(CallPrim(proc.prim, args), st)
  ELSE R(ExcV("TypeError"), st)

\* ---------------------------------------------------------------- expand

\* require(x, predicate, msg) failed: SyntaxError(to_string(x) + ': ' + msg).
SyntaxErr(st) == R(ExcV("SyntaxError"), st)

\* expand_quasiquote(x)
RECURSIVE expand_quasiquote(_)
expand_quasiquote(x) ==
  IF ~is_pair(x) THEN L2(_quote, x)
  ELSE IF Is(x.list[1], _unquotesplicing) THEN ExcV("SyntaxError")
  ELSE IF Is(x.list[1], _unquote)
    THEN (IF Len(x.list) # 2 THEN ExcV("SyntaxError") ELSE x.list[2])
  ELSE IF is_pair(x.list[1]) /\ Is(x.list[1].list[1], _unquotesplicing)
    THEN (IF Len(x.list[1].list) # 2 THEN ExcV("SyntaxError")
          ELSE LET r == expand_quasiquote(ListV(Rest(x.list))) IN
               IF IsExc(r) THEN r ELSE L3(_append, x.list[1].list[2], r))
  ELSE LET h == expand_quasiquote(x.list[1]) IN
       IF IsExc(h) THEN h
       ELSE LET r == expand_quasiquote(ListV(Rest(x.list))) IN
            IF IsExc(r) THEN r ELSE L3(_cons, h, r)

\* The toplevel flag the (define (f args) body) rewrite passes to its
\* recursive expand call: none, so the parameter's default, False.
HeadFormTopLevel(toplevel) == FALSE

RECURSIVE expand(_, _, _)
RECURSIVE expandEach(_, _, _, _)

\* [expand(xi, toplevel) for xi in xs], up to the first exception.
expandEach(xs, toplevel, st, acc) ==
  IF xs = <<>> THEN R(ListV(acc), st)
  ELSE LET h == expand(xs[1], toplevel, st) IN
       IF IsExc(h.r) THEN h
       ELSE expandEach(Rest(xs), toplevel, h.st, Append(acc, h.r))

\* The define / define-macro branch of expand (lines 255-271).
expandDefine(x, toplevel, st) ==
  LET n == Len(x.list)
      def == x.list[1] IN
  IF ~(n >= 3) THEN SyntaxErr(st)
  ELSE LET v == x.list[2]
           body == SubSeq(x.list, 3, n) IN
    IF IsList(v) /\ v.list # <<>>
      THEN expand(L3(def, v.list[1],
                     ListV(<<_lambda, ListV(Rest(v.list))>> \o body)),
                  HeadFormTopLevel(toplevel), st)
    ELSE IF n # 3 THEN SyntaxErr(st)
    ELSE IF ~IsSym(v) THEN SyntaxErr(st)
    ELSE LET e == expand(x.list[3], FALSE, st) IN
      IF IsExc(e.r) THEN e
      ELSE IF Is(def, _definemacro)
        THEN (IF ~toplevel THEN SyntaxErr(e.st)
              ELSE LET p == eval(e.r, global_env, e.st) IN
                   IF IsExc(p.r) THEN p
                   ELSE IF ~Callable(p.r) THEN SyntaxErr(p.st)
                   ELSE R(NoneV,
                          [p.st EXCEPT !.macro_table = (v.sym :> p.r) @@ @]))
      ELSE R(L3(_define, v, e.r), e.st)

\* expand(x, toplevel).  x[0] is read before the test for a non-list, so an
\* atom that is not subscriptable raises TypeError; map(expand, x) is the
\* lazy map object.
expand(x, toplevel, st) ==
  IF IsList(x) /\ x.list = <<>> THEN SyntaxErr(st)
  ELSE LET op == Item0(x) IN
    IF IsExc(op) THEN R(op, st)
    ELSE IF ~IsList(x) THEN R(x, st)
    ELSE LET n == Len(x.list) IN
      IF Is(op, _quote)
        THEN (IF n # 2 THEN SyntaxErr(st) ELSE R(x, st))
      ELSE IF Is(op, _if)
        THEN LET y == IF n = 3 THEN Append(x.list, NoneV) ELSE x.list IN
             IF Len(y) # 4 THEN SyntaxErr(st) ELSE R(MapV(y), st)
      ELSE IF Is(op, _set)
        THEN (IF n # 3 THEN SyntaxErr(st)
              ELSE IF ~IsSym(x.list[2]) THEN SyntaxErr(st)
              ELSE LET e == expand(x.list[3], FALSE, st) IN
                   IF IsExc(e.r) THEN e
                   ELSE R(L3(_set, x.list[2], e.r), e.st))
      ELSE IF Is(op, _define) \/ Is(op, _definemacro)
        THEN expandDefine(x, toplevel, st)
      ELSE IF Is(op, _begin)
        THEN (IF n = 1 THEN R(NoneV, st)
              ELSE expandEach(x.list, toplevel, st, <<>>))
      ELSE IF Is(op, _lambda)
        THEN (IF ~(n >= 3) THEN SyntaxErr(st)
              ELSE LET vars == x.list[2]
                       body == SubSeq(x.list, 3, n) IN
                IF ~(\/ IsList(vars) /\ \A i \in 1..Len(vars.list) : IsSym(vars.list[i])
                     \/ IsSym(vars))
                  THEN SyntaxErr(st)
                ELSE LET exp == IF Len(body) = 1 THEN body[1]
                                ELSE ListV(<<_begin>> \o body)
                         e == expand(exp, FALSE, st) IN
                     IF IsExc(e.r) THEN e
                     ELSE R(L3(_lambda, vars, e.r), e.st))
      ELSE IF Is(op, _quasiquote)
        THEN (IF n # 2 THEN SyntaxErr(st)
              ELSE R(expand_quasiquote(x.list[2]), st))
      ELSE IF IsSym(op) /\ op.sym \in DOMAIN st.macro_table
        THEN LET c == Call(st.macro_table[op.sym], Rest(x.list), st) IN
             IF IsExc(c.r) THEN c ELSE expand(c.r, toplevel, c.st)
      ELSE R(MapV(x.list), st)

\* parse(inport): expand(read(inport), toplevel=True)
parse(inport, st) == expand(read(inport), TRUE, st)

\* ================================================================= state

VARIABLES
  symbol_table,  \* Sym's table: the spellings that have an interned Symbol
  fresh,         \* how many uninterned Symbol objects atom() has made
  sym1, sym2,    \* the two Symbol objects most recently handed to the driver
  envs,          \* the Env objects, global_env first
  procs,         \* the Procedure objects
  macro_table,   \* spelling -> registered expander
  submitted,     \* the definitions the driver has submitted to eval so far
  last,          \* the driver's most recent call and what it got back
  stack,         \* call_cc: the Python frames between the driver and the running code
  raised,        \* call_cc: the ball in flight as an exception (0: none)
  raisedStale,   \* call_cc: that ball's call_cc had already returned when it was thrown
  retval,        \* call_cc: ball.retval of each ball thrown so far
  nballs,        \* call_cc: the balls made so far
  lastDone       \* call_cc: how the most recent call_cc activation ended

vars == <<symbol_table, fresh, sym1, sym2, envs, procs, macro_table, submitted,
          last, stack, raised, raisedStale, retval, nballs, lastDone>>

readerVars == <<symbol_table, fresh, sym1, sym2>>
heapVars == <<envs, procs, macro_table, submitted>>
escapeVars == <<stack, raised, raisedStale, retval, nballs, lastDone>>

St == [envs |-> envs, procs |-> procs, macro_table |-> macro_table]

\* ------------------------------------------------- the driver's programs

sA == S("a")
sB == S("b")

\* (define f (lambda (x) (lambda (y) (+ x y))))
DefF ==
  L3(_define, S("f"),
     L3(_lambda, L1(S("x")), L3(_lambda, L1(S("y")), L3(S("+"), S("x"), S("y")))))
\* ((f 3) 4)
F34 == L2(L2(S("f"), IntV(3)), IntV(4))
\* (define loop (lambda (n) (if (= n 0) 0 (loop (- n 1)))))
DefLoop ==
  L3(_define, S("loop"),
     L3(_lambda, L1(S("n")),
        L4(_if, L3(S("="), S("n"), IntV(0)), IntV(0),
           L2(S("loop"), L3(S("-"), S("n"), IntV(1))))))
\* (loop 3)
CallLoop == L2(S("loop"), IntV(3))
\* (if t 1 2) for literal tests t
IfTests == {IntV(0), BoolV(FALSE), BoolV(TRUE), L2(_quote, ListV(<<>>))}
IfForms == {L4(_if, t, IntV(1), IntV(2)) : t \in IfTests}
\* (set! zz 1), (set! a 1)
SetForms == {L3(_set, S("zz"), IntV(1)), L3(_set, sA, IntV(1))}

DefForms == {DefF, DefLoop}
\* Whole programs, evaluated in global_env, and the forms evaluated in any frame.
TopForms == {F34, CallLoop} \cup DefForms \cup IfForms
FrameForms == {S("car"), S("zz"), sA, IntV(42)} \cup SetForms

\* Parameter lists and argument tuples of the driver's Env and Procedure calls.
ParamLists == {sA, L2(sA, sB)}
ArgTuples == {<<>>, <<IntV(1)>>, <<IntV(1), IntV(2)>>, <<IntV(1), IntV(2), IntV(3)>>}
Bodies == {sA, IntV(42)}

\* The spellings of the driver's programs, interned while they were built.
ProgramSyms == {"a", "b", "c", "f", "m", "n", "x", "y", "zz", "car", "pi", "loop", "+", "-", "="}

\* ------------------------------------------------------------------ Init

Init ==
  /\ symbol_table = LoadSyms \cup ProgramSyms
  /\ fresh = 0
  /\ sym1 = NoneV
  /\ sym2 = NoneV
  /\ envs = <<add_globals>>
  /\ procs = <<>>
  /\ macro_table = InitMacroTable
  /\ submitted = {}
  /\ last = [op |-> "none"]
  /\ stack = <<>>
  /\ raised = 0
  /\ raisedStale = FALSE
  /\ retval = <<>>
  /\ nballs = 0
  /\ lastDone = [how |-> "none"]

\* ------------------------------------------------- actions: Sym and atom

SymNames == {"a", "quote", "k"}
Tokens == {"a", "quote", "#t", "#f", "42"}

\* The driver calls Sym(s).
DoSym(s) ==
  LET sC == Sym(s, symbol_table) IN
  /\ symbol_table' = sC.table
  /\ sym1' = sC.r
  /\ sym2' = sym1
  /\ last' = [op |-> "Sym", x |-> s, r |-> sC.r]
  /\ UNCHANGED <<fresh, heapVars, escapeVars>>

\* The reader classifies a token: atom(token).
DoAtom(token) ==
  LET r == atom(token, fresh + 1) IN
  /\ fresh < MaxFresh
  /\ fresh' = IF IsSym(r) THEN fresh + 1 ELSE fresh
  /\ sym1' = IF IsSym(r) THEN r ELSE sym1
  /\ sym2' = IF IsSym(r) THEN sym1 ELSE sym2
  /\ last' = [op |-> "atom", x |-> token, r |-> r]
  /\ UNCHANGED <<symbol_table, heapVars, escapeVars>>

\* The driver calls parse(inport) on any text.
DoParse ==
  LET v == parse("inport", St) IN
  /\ last' = [op |-> "parse", r |-> v.r]
  /\ macro_table' = v.st.macro_table
  /\ UNCHANGED <<readerVars, envs, procs, submitted, escapeVars>>

NextReader == (\E s \in SymNames : DoSym(s)) \/ (\E t \in Tokens : DoAtom(t)) \/ DoParse

SpecReader == Init /\ [][NextReader]_vars

\* ------------------------------------------- actions: Env, Procedure, eval

\* The driver calls eval(x, env) on a form of its programs.
DoEval(x, env) ==
  LET v == eval(x, env, St) IN
  /\ Len(v.st.envs) <= MaxEnvs
  /\ Len(v.st.procs) <= MaxProcs
  /\ envs' = v.st.envs
  /\ procs' = v.st.procs
  /\ macro_table' = v.st.macro_table
  /\ submitted' = IF x \in DefForms /\ env = global_env THEN submitted \cup {x} ELSE submitted
  /\ last' = [op |-> "eval", x |-> x, env |-> env, r |-> v.r]
  /\ UNCHANGED <<readerVars, escapeVars>>

\* The driver builds Env(params, args, outer).
DoEnv(params, args, outer) ==
  LET e == EnvInit(params, args, outer) IN
  /\ Len(envs) < MaxEnvs
  /\ envs' = IF IsExc(e) THEN envs ELSE Append(envs, e)
  /\ last' = [op |-> "Env", params |-> params, args |-> args,
              r |-> IF IsExc(e) THEN e ELSE [env |-> Len(envs) + 1]]
  /\ UNCHANGED <<readerVars, procs, macro_table, submitted, escapeVars>>

\* The driver makes a Procedure and applies it: Procedure(params, exp, env)(*args).
\* The call's frame is dropped on return unless a Procedure made during the
\* call captured it.
DoCall(params, exp, env, args) ==
  LET v == ProcedureCall([params |-> params, exp |-> exp, env |-> env], args, St)
      kept == \E i \in 1..Len(v.st.procs) : v.st.procs[i].env = v.frame IN
  /\ Len(v.st.procs) <= MaxProcs
  /\ kept => Len(v.st.envs) <= MaxEnvs
  /\ envs' = IF kept THEN v.st.envs ELSE SubSeq(v.st.envs, 1, Len(envs))
  /\ procs' = v.st.procs
  /\ macro_table' = v.st.macro_table
  /\ last' = [op |-> "call", params |-> params, exp |-> exp, env |-> env,
              args |-> args, r |-> v.r,
              frame |-> IF v.frame = 0 THEN NoneV ELSE v.st.envs[v.frame]]
  /\ UNCHANGED <<readerVars, submitted, escapeVars>>

NextEval ==
  \/ \E x \in TopForms : DoEval(x, global_env)
  \/ \E x \in FrameForms, env \in 1..Len(envs) : DoEval(x, env)
  \/ \E params \in ParamLists, args \in ArgTuples, outer \in 1..Len(envs) :
       DoEnv(params, args, outer)
  \/ \E params \in ParamLists, exp \in Bodies, env \in 1..Len(envs), args \in ArgTuples :
       DoCall(params, exp, env, args)

SpecEval == Init /\ [][NextEval]_vars

\* ------------------------------------------------------- actions: expand

sC == S("c")
sM == S("m")

\* Already-core forms: atoms, quote, if with three operands, set!, define,
\* lambda, begin, and an application.
CoreForms ==
  {IntV(42), BoolV(TRUE), NoneV, sA,
   L2(_quote, sA),
   L4(_if, sA, sB, sC),
   L3(_set, sA, sB),
   L3(_define, sA, sB),
   L3(_lambda, L1(S("x")), S("x")),
   L3(_begin, sA, sB),
   L2(S("f"), sA)}

\* (define-macro m car)
DefMacroPlain == L3(_definemacro, sM, S("car"))
\* (define-macro (m x) x)
DefMacroHead == L3(_definemacro, L2(sM, S("x")), S("x"))
\* (define-macro m (lambda (x) x))
DefMacroLambda == L3(_definemacro, sM, L3(_lambda, L1(S("x")), S("x")))
\* (define-macro m pi): pi is no callable
DefMacroFloat == L3(_definemacro, sM, S("pi"))
\* (lambda (x) (define-macro m car))
DefMacroNested == L3(_lambda, L1(S("x")), DefMacroPlain)
\* (begin (define-macro m car) a)
DefMacroBegin == L3(_begin, DefMacroPlain, sA)

DefMacroForms ==
  {DefMacroPlain, DefMacroHead, DefMacroLambda, DefMacroFloat, DefMacroNested, DefMacroBegin}

\* Derived and malformed forms: (), (if a b), (if a), (begin), (quote),
\* (set! 42 a), (define (f x) x), (lambda (x) a b), `(a ,b ,@c), (let ((a 1)) a),
\* (let () a), (m (a b)), (m a b).
OtherForms ==
  {ListV(<<>>), L3(_if, sA, sB), L2(_if, sA), L1(_begin), L1(_quote),
   L3(_set, IntV(42), sA),
   L3(_define, L2(S("f"), S("x")), S("x")),
   L4(_lambda, L1(S("x")), sA, sB),
   L2(_quasiquote, L3(sA, L2(_unquote, sB), L2(_unquotesplicing, sC))),
   L3(_let, L1(L2(sA, IntV(1))), sA),
   L3(_let, ListV(<<>>), sA),
   L2(sM, L2(sA, sB)),
   L3(sM, sA, sB)}

ExpandForms == CoreForms \cup DefMacroForms \cup OtherForms

\* The driver calls expand(x, toplevel).
DoExpand(x, toplevel) ==
  LET v == expand(x, toplevel, St) IN
  /\ macro_table' = v.st.macro_table
  /\ last' = [op |-> "expand", x |-> x, top |-> toplevel, r |-> v.r,
              table |-> macro_table]
  /\ UNCHANGED <<readerVars, envs, procs, submitted, escapeVars>>

\* The driver expands what its last expand call returned: expand(expand(x)).
DoExpandAgain ==
  /\ last.op = "expand"
  /\ ~IsExc(last.r)
  /\ LET v == expand(last.r, last.top, St) IN
     /\ macro_table' = v.st.macro_table
     /\ last' = [op |-> "expand2", x |-> last.x, top |-> last.top, r1 |-> last.r,
                 r |-> v.r]
  /\ UNCHANGED <<readerVars, envs, procs, submitted, escapeVars>>

NextExpand ==
  \/ \E x \in ExpandForms, toplevel \in BOOLEAN : DoExpand(x, toplevel)
  \/ DoExpandAgain

SpecExpand == Init /\ [][NextExpand]_vars

\* ------------------------------------------------------ actions: call_cc

\* The classes an exception of class cls is an instance of.
Superclasses(cls) ==
  IF cls = "RuntimeWarning" THEN {"RuntimeWarning", "Warning", "Exception", "BaseException"}
  ELSE IF cls = "RuntimeError" THEN {"RuntimeError", "Exception", "BaseException"}
  ELSE {cls, "Exception", "BaseException"}

\* ball = RuntimeWarning(...)
BallClass == "RuntimeWarning"
\* except RuntimeError as w:
ExceptClass == "RuntimeError"

\* A handler that returns the retval of whatever ball arrives (a mutant of
\* call_cc_except).
call_cc_except_any(w, ball) == "return"

\* call_cc's handler, for the ball w that arrives at the activation that made
\* `ball`: "return" (return ball.retval) or "raise" (the exception goes on).
call_cc_except(w, ball) ==
  IF ExceptClass \in Superclasses(BallClass)
    THEN (IF w = ball THEN "return" ELSE "raise")
    ELSE "raise"

ThrowVals == {IntV(42)}
ReturnVals == {IntV(5)}

Top == stack[Len(stack)]
Pop == SubSeq(stack, 1, Len(stack) - 1)
IsBallFrame(f) == "ball" \in DOMAIN f
\* The call_cc activation that made ball k is still on the stack.
Active(k) == \E i \in 1..Len(stack) : stack[i] = [ball |-> k]

\* call_cc(proc) is called, by the driver or by host code inside a proc: the
\* ball and its throw are made and proc(throw) starts inside the try.
CallCC ==
  /\ raised = 0
  /\ nballs < MaxBalls
  /\ Len(stack) < MaxDepth
  /\ nballs' = nballs + 1
  /\ stack' = Append(stack, [ball |-> nballs + 1])
  /\ UNCHANGED <<readerVars, heapVars, last, raised, raisedStale, retval, lastDone>>

\* The running proc starts an expression with a pending operation, as the
\* (+ 1 []) of (+ 1 (k 42)).
PushPending ==
  /\ raised = 0
  /\ stack # <<>>
  /\ Len(stack) < MaxDepth
  /\ stack' = Append(stack, [pend |-> "+"])
  /\ UNCHANGED <<readerVars, heapVars, last, raised, raisedStale, retval, nballs, lastDone>>

\* The pending operation gets its operand and runs.
RunPending ==
  /\ raised = 0
  /\ stack # <<>>
  /\ ~IsBallFrame(Top)
  /\ stack' = Pop
  /\ UNCHANGED <<readerVars, heapVars, last, raised, raisedStale, retval, nballs, lastDone>>

\* Whoever holds throw k calls it: ball.retval = retval; raise ball.
Throw(k, v) ==
  /\ raised = 0
  /\ k \in 1..nballs
  /\ retval' = (k :> v) @@ retval
  /\ raised' = k
  /\ raisedStale' = ~Active(k)
  /\ UNCHANGED <<readerVars, heapVars, last, stack, nballs, lastDone>>

\* The exception in flight leaves the top frame: a pending operation is
\* abandoned; a call_cc activation runs its handler.
Unwind ==
  /\ raised # 0
  /\ stack # <<>>
  /\ stack' = Pop
  /\ IF IsBallFrame(Top)
       THEN LET h == call_cc_except(raised, Top.ball) IN
            /\ lastDone' = [how |-> IF h = "return" THEN "caught" ELSE "raised",
                            ball |-> Top.ball, thrown |-> raised,
                            val |-> retval[raised], stale |-> raisedStale]
            /\ raised' = IF h = "return" THEN 0 ELSE raised
            /\ last' = IF h = "return" /\ Len(stack) = 1
                         THEN [op |-> "call_cc", r |-> retval[raised]]
                         ELSE last
       ELSE UNCHANGED <<lastDone, raised, last>>
  /\ UNCHANGED <<readerVars, heapVars, raisedStale, retval, nballs>>

\* proc(throw) returns v and call_cc returns it.
Return(v) ==
  /\ raised = 0
  /\ stack # <<>>
  /\ IsBallFrame(Top)
  /\ stack' = Pop
  /\ lastDone' = [how |-> "returned", ball |-> Top.ball, thrown |-> 0,
                  val |-> v, stale |-> FALSE]
  /\ last' = IF Len(stack) = 1 THEN [op |-> "call_cc", r |-> v] ELSE last
  /\ UNCHANGED <<readerVars, heapVars, raised, raisedStale, retval, nballs>>

\* The exception reaches the driver.
Escaped ==
  /\ raised # 0
  /\ stack = <<>>
  /\ raised' = 0
  /\ raisedStale' = FALSE
  /\ last' = [op |-> "call_cc", r |-> ExcV(BallClass)]
  /\ UNCHANGED <<readerVars, heapVars, stack, retval, nballs, lastDone>>

NextEscape ==
  \/ CallCC
  \/ PushPending
  \/ RunPending
  \/ \E k \in 1..MaxBalls, v \in ThrowVals : Throw(k, v)
  \/ Unwind
  \/ \E v \in ReturnVals : Return(v)
  \/ Escaped

SpecEscape == Init /\ [][NextEscape]_vars

\* ================================================================ claims

\* C1: when a proc invokes its own escape function throw(v) while its
\* call_cc activation is still active, control unwinds to that call_cc and
\* the call returns v.
C1_EscapeReturnsThrownValue ==
  (lastDone.how # "none" /\ lastDone.thrown = lastDone.ball) =>
    (lastDone.how = "caught" /\ lastDone.val \in ThrowVals)

\* C2: with f = (lambda (x) (lambda (y) (+ x y))) defined, ((f 3) 4)
\* evaluates to 7 (each application of f captures its own frame).
C2_ClosureCapturesFrame ==
  (/\ DefF \in submitted
   /\ last.op = "eval" /\ last.x = F34 /\ last.env = global_env) =>
    last.r = IntV(7)

\* The frames from frame e outward to the root.
RECURSIVE Chain(_, _)
Chain(es, e) == IF e = 0 THEN {} ELSE {e} \cup Chain(es, es[e].outer)
BoundFrom(s, e) == \E i \in Chain(envs, e) : s \in DOMAIN envs[i].vars

\* C3: evaluating a symbol, or a (set! v e), whose symbol is bound in no frame
\* from the current environment out to the global one signals an error, and
\* set! adds no key to any frame: zz, which no define and no parameter list
\* names, is in no frame, and a, which only parameter lists name, is not in
\* the global frame.
C3_UnboundSignalsError ==
  /\ (last.op = "eval" /\ IsSym(last.x) /\ ~BoundFrom(last.x.sym, last.env)) =>
       IsExc(last.r)
  /\ (last.op = "eval" /\ last.x \in SetForms
        /\ ~BoundFrom(last.x.list[2].sym, last.env)) => IsExc(last.r)
  /\ \A i \in 1..Len(envs) : "zz" \notin DOMAIN envs[i].vars
  /\ "a" \notin DOMAIN envs[global_env].vars

\* zz was evaluated in a frame whose chain has two frames, and the lookup
\* failed at the root.
C3_Witness ==
  /\ last.op = "eval" /\ last.x = S("zz") /\ last.env # global_env
  /\ last.r = ExcV("LookupError")

\* C4: binding a fixed sequence of n parameter symbols to k arguments, as a
\* closure application does, raises the arity TypeError whenever k # n and
\* makes no frame; binding a single parameter symbol succeeds for every k and
\* binds the symbol to the whole argument sequence (a closure whose body is
\* that symbol returns the sequence).
C4_ArityChecked ==
  last.op \in {"call", "Env"} =>
    LET frame == IF last.op = "call" THEN last.frame
                 ELSE IF IsExc(last.r) THEN NoneV ELSE envs[last.r.env] IN
    IF IsSym(last.params)
      THEN /\ frame # NoneV
           /\ DOMAIN frame.vars = {last.params.sym}
           /\ frame.vars[last.params.sym] = ListV(last.args)
           /\ last.r # ExcV("TypeError")
           /\ (last.op = "call" /\ last.exp = last.params) => last.r = ListV(last.args)
      ELSE IF Len(last.args) # Len(last.params.list)
        THEN last.r = ExcV("TypeError") /\ frame = NoneV
        ELSE /\ frame # NoneV
             /\ \A i \in 1..Len(last.args) :
                  frame.vars[last.params.list[i].sym] = last.args[i]

\* A closure with the two parameters (a b) was applied to three arguments.
C4_Witness ==
  /\ last.op = "call" /\ last.params = L2(sA, sB) /\ Len(last.args) = 3
  /\ last.r = ExcV("TypeError")

\* C5: two symbols with equal spelling are the same object, whether Sym or
\* the reader's atom produced them, and a read symbol spelled like a special
\* form is the special form's key.
C5_EqualSpellingSameObject ==
  /\ (IsSym(sym1) /\ IsSym(sym2) /\ sym1.sym = sym2.sym) => Is(sym1, sym2)
  /\ (IsSym(sym1) /\ sym1.sym \in LoadSyms) => Is(sym1, S(sym1.sym))

\* C6: expand succeeds on every already-core form f, and
\* expand(expand(f)) = expand(f).
C6_ExpandIdempotentOnCore ==
  /\ (last.op = "expand" /\ last.x \in CoreForms) => ~IsExc(last.r)
  /\ (last.op = "expand2" /\ last.x \in CoreForms) => last.r = last.r1

\* C7: once a call_cc activation has returned, a later call of its throw
\* signals an error, which stays in flight until it reaches the driver, and
\* its value is never delivered as the result of any call_cc activation: a
\* handler returns a ball's retval only for its own ball, thrown while active.
C7_StaleThrowNeverDelivered ==
  /\ raisedStale => raised # 0
  /\ lastDone.how = "caught" =>
       (~lastDone.stale /\ lastDone.thrown = lastDone.ball)

\* A throw whose call_cc had returned was called inside a later call_cc
\* activation, and went through that activation's handler.
C7_Witness ==
  /\ lastDone.how = "raised"
  /\ lastDone.stale
  /\ lastDone.thrown # lastDone.ball

\* C8: with the self-recursive loop defined, whose recursive call is in tail
\* position, (loop 3) runs its iterations and eval returns the value of the
\* final tail expression, 0.
C8_TailLoopReturnsValue ==
  (/\ DefLoop \in submitted
   /\ last.op = "eval" /\ last.x = CallLoop /\ last.env = global_env) =>
    last.r = IntV(0)

\* C9: (if t c a) yields the value of c when the value of t is anything but
\* the boolean false (0 and the empty list included), and the value of a
\* only when it is the boolean false.
C9_IfSelectsBranch ==
  (last.op = "eval" /\ last.x \in IfForms) =>
    last.r = (IF last.x.list[2] = BoolV(FALSE) THEN last.x.list[4] ELSE last.x.list[3])

\* C10: a define-macro form, plain or with the (f . args) head, expanded at
\* top level registers a callable under the name and returns None; expanded
\* with toplevel false it raises SyntaxError and leaves the macro table as
\* it was.
C10_DefineMacroAtTopLevel ==
  (last.op = "expand" /\ last.x \in {DefMacroPlain, DefMacroHead, DefMacroLambda}) =>
    IF last.top
      THEN /\ last.r = NoneV
           /\ "m" \in DOMAIN macro_table
           /\ Callable(macro_table["m"])
      ELSE /\ last.r = ExcV("SyntaxError")
           /\ macro_table = last.table

====
